---- MODULE Spec2Model ----
(***************************************************************************)
(* Model of src/main/python/keyboard.py: class Keyboard, the low-level     *)
(* client of a vial-enabled keyboard.  Every method is one action; the     *)
(* transport (usb_send) is a synchronous exchange that either answers or   *)
(* raises, and the exchange of a call that fails is an input of the call.  *)
(***************************************************************************)
EXTENDS Integers, Sequences, FiniteSets, TLC

\* ------------------------------------------------------------------ bounds
\* largest layer count the device answers
MaxLayers == 1
\* length of one transport frame (util.MSG_LEN)
MSG_LEN == 12
\* largest definition size the device declares
MaxSize == 25

\* ------------------------------------------------------- program constants
CMD_VIA_GET_KEYCODE == 4
CMD_VIA_SET_KEYCODE == 5
CMD_VIA_GET_LAYER_COUNT == 17
CMD_VIA_VIAL_PREFIX == 254
CMD_VIAL_GET_KEYBOARD_ID == 0
CMD_VIAL_GET_SIZE == 1
CMD_VIAL_GET_DEFINITION == 2

\* the value of an unset entry in a saved layout, and of an unset identity
UNSET == 0 - 1

\* ----------------------------------------------------------------- helpers
Min(a, b) == IF a < b THEN a ELSE b

\* s[a:b] of Python, on a sequence (0-based, end exclusive, clipped)
Slice(s, a, b) == SubSeq(s, a + 1, Min(b, Len(s)))

RECURSIVE Zeros(_)
Zeros(n) == IF n <= 0 THEN <<>> ELSE <<0>> \o Zeros(n - 1)

\* a frame as the transport returns it: cut or zero-padded to MSG_LEN bytes
Frame(bytes) ==
    IF Len(bytes) >= MSG_LEN THEN SubSeq(bytes, 1, MSG_LEN)
    ELSE bytes \o Zeros(MSG_LEN - Len(bytes))

\* ------------------------------------------------------------ struct codec
IsByte(x) == x \in 0..255
IsU16(x) == x \in 0..65535

\* struct.pack("<I", x) and "<Q": little-endian, n bytes
RECURSIVE PackLE(_, _)
PackLE(x, n) == IF n = 0 THEN <<>> ELSE <<x % 256>> \o PackLE(x \div 256, n - 1)

\* struct.unpack("<I", b)[0] and "<Q"
RECURSIVE UnpackLE(_)
UnpackLE(b) == IF Len(b) = 0 THEN 0 ELSE b[1] + 256 * UnpackLE(Tail(b))

\* struct.pack(">H", x)
PackBE16(x) == <<x \div 256, x % 256>>

\* the two bytes read low byte first: struct.unpack("<H", b)[0]
UnpackBE16_LittleEndian(b) == b[2] * 256 + b[1]

\* struct.unpack(">H", b)[0]
UnpackBE16(b) == b[1] * 256 + b[2]

\* ------------------------------------------------------------- json codec
Digits == <<"0", "1", "2", "3", "4", "5", "6", "7", "8", "9">>

RECURSIVE NatToStr(_)
NatToStr(n) ==
    IF n < 10 THEN <<Digits[n + 1]>>
    ELSE NatToStr(n \div 10) \o <<Digits[(n % 10) + 1]>>

\* json.dumps of an integer: its decimal text
IntToStr(n) == IF n < 0 THEN <<"-">> \o NatToStr(0 - n) ELSE NatToStr(n)

DigitVal(ch) == (CHOOSE i \in 1..10 : Digits[i] = ch) - 1

IsDigits(s) == Len(s) > 0 /\ \A i \in 1..Len(s) : \E d \in 1..10 : Digits[d] = s[i]

RECURSIVE StrToNat(_)
StrToNat(s) ==
    IF Len(s) = 0 THEN 0
    ELSE 10 * StrToNat(SubSeq(s, 1, Len(s) - 1)) + DigitVal(s[Len(s)])

\* json.loads / int() of a decimal text
StrToInt(s) == IF s[1] = "-" THEN 0 - StrToNat(Tail(s)) ELSE StrToNat(s)

\* int(s) accepts an optional sign and digits
IsIntText(s) ==
    /\ Len(s) > 0
    /\ IF s[1] = "-" THEN IsDigits(Tail(s)) ELSE IsDigits(s)

\* --------------------------------------------------------------- documents
\* label texts, as sequences of characters
L00 == <<"0", ",", "0">>
L10 == <<"1", ",", "0">>
LNoComma == <<"x">>
LThree == <<"0", ",", "0", ",", "0">>
LEmpty == <<>>

\* A layout document is what json.loads returns: nested dicts.  The keymap
\* sub-document is kept as the ordered list of its keys' label lists.
DocTwoKeys ==
    [matrix |-> [rows |-> 2, cols |-> 1],
     layouts |-> [keymap |-> << <<L00>>, <<L10>> >>]]
\* a key outside the declared matrix, an unlabelled key, unrelated sub-labels
DocOutside ==
    [matrix |-> [rows |-> 1, cols |-> 1],
     layouts |-> [keymap |-> << <<LEmpty>>, <<L10, LNoComma>>, <<L00, L10>> >>]]
\* a matrix cell without a key
DocSparse ==
    [matrix |-> [rows |-> 2, cols |-> 1],
     layouts |-> [keymap |-> << <<L00>>, <<LNoComma, L10>> >>]]
DocNoCols ==
    [matrix |-> [rows |-> 1],
     layouts |-> [keymap |-> << <<L00>> >>]]
DocNoKeymap ==
    [matrix |-> [rows |-> 1, cols |-> 2],
     layouts |-> [other |-> <<>>]]
DocBadLabel ==
    [matrix |-> [rows |-> 1, cols |-> 1],
     layouts |-> [keymap |-> << <<L00>>, <<LThree>> >>]]

Docs == <<DocTwoKeys, DocOutside, DocSparse, DocNoCols, DocNoKeymap, DocBadLabel>>

\* every (row, col) a document of Docs names, and every (layer, row, col)
Coords == {<<0, 0>>, <<1, 0>>}
Triples == {<<l, rc[1], rc[2]>> : l \in 0..(MaxLayers - 1), rc \in Coords}
\* the triples the device answers for: one layer more than MaxLayers
DevTriples == {<<l, rc[1], rc[2]>> : l \in 0..MaxLayers, rc \in Coords}

\* keycodes the device holds, and the codes a caller passes to set_key: the
\* keycodes and a value that does not fit 16 bits
Keycodes == {10, 20}
Codes == Keycodes \cup {65536}

\* --------------------------------------------------------------- variables
VARIABLES
    rowcol,         \* self.rowcol: the (row, col) keys, in insertion order
    layout,         \* self.layout: (layer, row, col) -> keycode
    rows, cols,     \* self.rows, self.cols
    layers,         \* self.layers
    keys,           \* self.keys: the key records of the last deserialize
    vial_protocol,  \* self.vial_protocol
    keyboard_id,    \* self.keyboard_id
    dev,            \* the device: the keycode it holds for every triple
    call,           \* the last call: method and arguments
    outcome,        \* how the last call ended: "ok" or the exception raised
    reqs,           \* the requests the last call handed to usb_send, in order
    payload,        \* the definition buffer the last call fetched
    ret             \* what the last call returned: <<bytes>> of save_layout

kbd == <<rowcol, layout, rows, cols, layers, keys, vial_protocol, keyboard_id>>
vars == <<rowcol, layout, rows, cols, layers, keys, vial_protocol, keyboard_id,
          dev, call, outcome, reqs, payload, ret>>

EmptyLayout == [t \in {} |-> 0]

\* Keyboard.__init__, with a device that holds 10 in row 0 and 20 in row 1
Init ==
    /\ rowcol = <<>>
    /\ layout = EmptyLayout
    /\ rows = 0
    /\ cols = 0
    /\ layers = 0
    /\ keys = <<>>
    /\ vial_protocol = UNSET
    /\ keyboard_id = UNSET
    /\ dev = [t \in DevTriples |-> IF t[2] = 0 THEN 10 ELSE 20]
    /\ call = [name |-> "__init__"]
    /\ outcome = "ok"
    /\ reqs = <<>>
    /\ payload = <<>>
    /\ ret = <<>>

\* ----------------------------------------------------------------- set_key
SetKeycodeRequest(layer, row, col, code) ==
    <<CMD_VIA_SET_KEYCODE, layer, row, col>> \o PackBE16(code)

\* a pack that does not check the range of the keycode
SetKeycodePacks_AnyCode(layer, row, col, code) ==
    IsByte(layer) /\ IsByte(row) /\ IsByte(col)

\* struct.pack(">BBBBH", ...) accepts the arguments
SetKeycodePacks(layer, row, col, code) ==
    IsByte(layer) /\ IsByte(row) /\ IsByte(col) /\ IsU16(code)

\* set_key without the comparison with the cached value
SetKeyStep_NoDedup(lay, dv, rq, layer, row, col, code, fail) ==
    LET key == <<layer, row, col>> IN
    IF key \notin DOMAIN lay
    THEN [layout |-> lay, dev |-> dv, reqs |-> rq, outcome |-> "KeyError"]
    ELSE IF ~SetKeycodePacks(layer, row, col, code)
    THEN [layout |-> lay, dev |-> dv, reqs |-> rq, outcome |-> "struct.error"]
    ELSE IF Len(rq) + 1 = fail
    THEN [layout |-> lay, dev |-> dv,
          reqs |-> Append(rq, SetKeycodeRequest(layer, row, col, code)),
          outcome |-> "TransportError"]
    ELSE [layout |-> [lay EXCEPT ![key] = code],
          dev |-> [dv EXCEPT ![key] = code],
          reqs |-> Append(rq, SetKeycodeRequest(layer, row, col, code)),
          outcome |-> "ok"]

\* set_key that forgets to store the keycode it wrote
SetKeyStep_NoCommit(lay, dv, rq, layer, row, col, code, fail) ==
    LET key == <<layer, row, col>> IN
    IF key \notin DOMAIN lay
    THEN [layout |-> lay, dev |-> dv, reqs |-> rq, outcome |-> "KeyError"]
    ELSE IF lay[key] = code
    THEN [layout |-> lay, dev |-> dv, reqs |-> rq, outcome |-> "ok"]
    ELSE IF ~SetKeycodePacks(layer, row, col, code)
    THEN [layout |-> lay, dev |-> dv, reqs |-> rq, outcome |-> "struct.error"]
    ELSE IF Len(rq) + 1 = fail
    THEN [layout |-> lay, dev |-> dv,
          reqs |-> Append(rq, SetKeycodeRequest(layer, row, col, code)),
          outcome |-> "TransportError"]
    ELSE [layout |-> lay,
          dev |-> [dv EXCEPT ![key] = code],
          reqs |-> Append(rq, SetKeycodeRequest(layer, row, col, code)),
          outcome |-> "ok"]

\* set_key that reads the cache with a default instead of a lookup
SetKeyStep_GetDefault(lay, dv, rq, layer, row, col, code, fail) ==
    LET key == <<layer, row, col>> IN
    IF key \in DOMAIN lay /\ lay[key] = code
    THEN [layout |-> lay, dev |-> dv, reqs |-> rq, outcome |-> "ok"]
    ELSE IF ~SetKeycodePacks(layer, row, col, code)
    THEN [layout |-> lay, dev |-> dv, reqs |-> rq, outcome |-> "struct.error"]
    ELSE IF Len(rq) + 1 = fail
    THEN [layout |-> lay, dev |-> dv,
          reqs |-> Append(rq, SetKeycodeRequest(layer, row, col, code)),
          outcome |-> "TransportError"]
    ELSE [layout |-> [t \in DOMAIN lay \cup {key} |-> IF t = key THEN code ELSE lay[t]],
          dev |-> dv,
          reqs |-> Append(rq, SetKeycodeRequest(layer, row, col, code)),
          outcome |-> "ok"]

\* set_key that stores the keycode before the exchange
SetKeyStep_CommitFirst(lay, dv, rq, layer, row, col, code, fail) ==
    LET key == <<layer, row, col>> IN
    IF key \notin DOMAIN lay
    THEN [layout |-> lay, dev |-> dv, reqs |-> rq, outcome |-> "KeyError"]
    ELSE IF lay[key] = code
    THEN [layout |-> lay, dev |-> dv, reqs |-> rq, outcome |-> "ok"]
    ELSE IF ~SetKeycodePacks(layer, row, col, code)
    THEN [layout |-> lay, dev |-> dv, reqs |-> rq, outcome |-> "struct.error"]
    ELSE IF Len(rq) + 1 = fail
    THEN [layout |-> [lay EXCEPT ![key] = code], dev |-> dv,
          reqs |-> Append(rq, SetKeycodeRequest(layer, row, col, code)),
          outcome |-> "TransportError"]
    ELSE [layout |-> [lay EXCEPT ![key] = code],
          dev |-> [dv EXCEPT ![key] = code],
          reqs |-> Append(rq, SetKeycodeRequest(layer, row, col, code)),
          outcome |-> "ok"]

\* The effect of set_key on (layout, dev) when rq requests were issued before
\* it in the same call and exchange number fail of the call raises.
SetKeyStep(lay, dv, rq, layer, row, col, code, fail) ==
    LET key == <<layer, row, col>> IN
    IF key \notin DOMAIN lay
    THEN [layout |-> lay, dev |-> dv, reqs |-> rq, outcome |-> "KeyError"]
    ELSE IF lay[key] = code
    THEN [layout |-> lay, dev |-> dv, reqs |-> rq, outcome |-> "ok"]
    ELSE IF ~SetKeycodePacks(layer, row, col, code)
    THEN [layout |-> lay, dev |-> dv, reqs |-> rq, outcome |-> "struct.error"]
    ELSE IF Len(rq) + 1 = fail
    THEN [layout |-> lay, dev |-> dv,
          reqs |-> Append(rq, SetKeycodeRequest(layer, row, col, code)),
          outcome |-> "TransportError"]
    ELSE [layout |-> [lay EXCEPT ![key] = code],
          dev |-> [dv EXCEPT ![key] = code],
          reqs |-> Append(rq, SetKeycodeRequest(layer, row, col, code)),
          outcome |-> "ok"]

set_key(layer, row, col, code, fail) ==
    LET r == SetKeyStep(layout, dev, <<>>, layer, row, col, code, fail) IN
    /\ layout' = r.layout
    /\ dev' = r.dev
    /\ reqs' = r.reqs
    /\ outcome' = r.outcome
    /\ call' = [name |-> "set_key", layer |-> layer, row |-> row, col |-> col,
                code |-> code,
                old |-> IF <<layer, row, col>> \in DOMAIN layout
                        THEN layout[<<layer, row, col>>] ELSE UNSET]
    /\ payload' = <<>>
    /\ ret' = <<>>
    /\ UNCHANGED <<rowcol, rows, cols, layers, keys, vial_protocol, keyboard_id>>

\* ------------------------------------------------------------- save_layout
\* save_layout with the row and column loops exchanged
SavedData_Transposed(lay, nl, nr, nc) ==
    [version |-> 0,
     layout |-> [l \in 1..nl |-> [c \in 1..nc |-> [r \in 1..nr |->
                    IF <<l - 1, r - 1, c - 1>> \in DOMAIN lay
                    THEN lay[<<l - 1, r - 1, c - 1>>]
                    ELSE UNSET]]]]

\* the dict save_layout builds: the keycode of every index triple, or -1
SavedData(lay, nl, nr, nc) ==
    [version |-> 0,
     layout |-> [l \in 1..nl |-> [r \in 1..nr |-> [c \in 1..nc |->
                    IF <<l - 1, r - 1, c - 1>> \in DOMAIN lay
                    THEN lay[<<l - 1, r - 1, c - 1>>]
                    ELSE UNSET]]]]

\* json.dumps(data).encode("utf-8"): every number becomes its decimal text
JsonDumps(data) ==
    [version |-> IntToStr(data.version),
     layout |-> [l \in 1..Len(data.layout) |->
                 [r \in 1..Len(data.layout[l]) |->
                  [c \in 1..Len(data.layout[l][r]) |->
                     IntToStr(data.layout[l][r][c])]]]]

\* json.loads(data.decode("utf-8"))
JsonLoads(bytes) ==
    [version |-> StrToInt(bytes.version),
     layout |-> [l \in 1..Len(bytes.layout) |->
                 [r \in 1..Len(bytes.layout[l]) |->
                  [c \in 1..Len(bytes.layout[l][r]) |->
                     StrToInt(bytes.layout[l][r][c])]]]]

SaveLayoutResult == JsonDumps(SavedData(layout, layers, rows, cols))

save_layout ==
    /\ ret' = <<SaveLayoutResult>>
    /\ call' = [name |-> "save_layout"]
    /\ outcome' = "ok"
    /\ reqs' = <<>>
    /\ payload' = <<>>
    /\ UNCHANGED <<kbd, dev>>

\* ---------------------------------------------------------- restore_layout
\* the (l, r, c, value) of a decoded layout, in the order the loops visit them
RECURSIVE RowEntries(_, _, _, _)
RowEntries(row, l, r, c) ==
    IF c > Len(row) THEN <<>>
    ELSE << <<l - 1, r - 1, c - 1, row[c]>> >> \o RowEntries(row, l, r, c + 1)

RECURSIVE LayerEntries(_, _, _)
LayerEntries(layer, l, r) ==
    IF r > Len(layer) THEN <<>>
    ELSE RowEntries(layer[r], l, r, 1) \o LayerEntries(layer, l, r + 1)

RECURSIVE LayoutEntries(_, _)
LayoutEntries(arr, l) ==
    IF l > Len(arr) THEN <<>>
    ELSE LayerEntries(arr[l], l, 1) \o LayoutEntries(arr, l + 1)

\* the loops of restore_layout from entry i on; an exception ends them
RECURSIVE RestoreLoop(_, _, _, _, _, _)
RestoreLoop(entries, i, lay, dv, rq, fail) ==
    IF i > Len(entries)
    THEN [layout |-> lay, dev |-> dv, reqs |-> rq, outcome |-> "ok"]
    ELSE LET e == entries[i] IN
         IF <<e[1], e[2], e[3]>> \in DOMAIN lay
         THEN LET r == SetKeyStep(lay, dv, rq, e[1], e[2], e[3], e[4], fail) IN
              IF r.outcome = "ok"
              THEN RestoreLoop(entries, i + 1, r.layout, r.dev, r.reqs, fail)
              ELSE r
         ELSE RestoreLoop(entries, i + 1, lay, dv, rq, fail)

\* restore_layout that takes the geometry of the saved layout over
restore_layout_AdoptsGeometry(data, fail) ==
    LET r == RestoreLoop(LayoutEntries(JsonLoads(data).layout, 1), 1,
                         layout, dev, <<>>, fail) IN
    /\ layout' = r.layout
    /\ dev' = r.dev
    /\ reqs' = r.reqs
    /\ outcome' = r.outcome
    /\ call' = [name |-> "restore_layout", data |-> data]
    /\ payload' = <<>>
    /\ ret' = <<>>
    /\ layers' = Len(JsonLoads(data).layout)
    /\ UNCHANGED <<rowcol, rows, cols, keys, vial_protocol, keyboard_id>>

restore_layout(data, fail) ==
    LET r == RestoreLoop(LayoutEntries(JsonLoads(data).layout, 1), 1,
                         layout, dev, <<>>, fail) IN
    /\ layout' = r.layout
    /\ dev' = r.dev
    /\ reqs' = r.reqs
    /\ outcome' = r.outcome
    /\ call' = [name |-> "restore_layout", data |-> data]
    /\ payload' = <<>>
    /\ ret' = <<>>
    /\ UNCHANGED <<rowcol, rows, cols, layers, keys, vial_protocol, keyboard_id>>

\* ------------------------------------------------------------------ device
\* what the device answers to the identity request
DeviceIdentity == [vial_protocol |-> 3, keyboard_id |-> 4660]

\* The compressed definition of document d, n bytes long.  The stream names
\* its document and its own length, so that a buffer with a byte missing,
\* added or moved does not decompress.  d = 0 is a corrupt definition.
DevBlob(d, n) ==
    [i \in 1..n |-> IF i = 1 THEN d ELSE IF i = 2 THEN n ELSE 100 + (i % 100)]

\* lzma.decompress accepts the buffer
Decompresses(buf) ==
    /\ Len(buf) >= 2
    /\ buf[1] \in 1..Len(Docs)
    /\ buf = DevBlob(buf[1], Len(buf))

\* json.loads(lzma.decompress(buf))
LoadDefinition(buf) == Docs[buf[1]]

\* the device's answers, as frames
IdentityResponse ==
    Frame(PackLE(DeviceIdentity.vial_protocol, 4) \o PackLE(DeviceIdentity.keyboard_id, 8))
SizeResponse(sz) == Frame(PackLE(sz, 4))
DefinitionResponse(blob, block) ==
    Frame(SubSeq(blob, Min(block * MSG_LEN, Len(blob)) + 1, Len(blob)))
LayerCountResponse(n) == Frame(<<CMD_VIA_GET_LAYER_COUNT, n>>)
KeycodeResponse(dv, layer, row, col) ==
    Frame(<<CMD_VIA_GET_KEYCODE, layer, row, col>> \o PackBE16(dv[<<layer, row, col>>]))

\* the requests
IdentityRequest == <<CMD_VIA_VIAL_PREFIX, CMD_VIAL_GET_KEYBOARD_ID>>
SizeRequest == <<CMD_VIA_VIAL_PREFIX, CMD_VIAL_GET_SIZE>>
DefinitionRequest(block) ==
    <<CMD_VIA_VIAL_PREFIX, CMD_VIAL_GET_DEFINITION>> \o PackLE(block, 4)
LayerCountRequest == <<CMD_VIA_GET_LAYER_COUNT>>
KeycodeRequest(layer, row, col) == <<CMD_VIA_GET_KEYCODE, layer, row, col>>

\* ------------------------------------------------------------ the Keyboard
\* The object and the record of the running call, as one value that the
\* methods below transform: k.reqs are the requests the call has issued and
\* k.outcome is "ok" until an exception ends the call.
Self ==
    [rowcol |-> rowcol, layout |-> layout, rows |-> rows, cols |-> cols,
     layers |-> layers, keys |-> keys, vial_protocol |-> vial_protocol,
     keyboard_id |-> keyboard_id, reqs |-> <<>>, outcome |-> "ok",
     payload |-> <<>>]

\* usb_send raises and the request is handed over once more before the
\* call ends
Raised_Retry(k, req) ==
    [k EXCEPT !.reqs = Append(Append(k.reqs, req), req), !.outcome = "TransportError"]

\* usb_send raises: the request was handed over, the call ends
Raised(k, req) == [k EXCEPT !.reqs = Append(k.reqs, req), !.outcome = "TransportError"]
Sent(k, req) == [k EXCEPT !.reqs = Append(k.reqs, req)]
\* the next exchange of the call is the one that fails
Fails(k, fail) == Len(k.reqs) + 1 = fail

\* ------------------------------------------------------------ reload_layers
ReloadLayers(k, n, fail) ==
    IF Fails(k, fail) THEN Raised(k, LayerCountRequest)
    ELSE [Sent(k, LayerCountRequest) EXCEPT !.layers = LayerCountResponse(n)[2]]

\* ------------------------------------------------------------ reload_layout
\* the loop with the test sz >= 0: one more chunk when sz is a multiple
RECURSIVE DefinitionLoop_ExtraChunk(_, _, _, _, _)
DefinitionLoop_ExtraChunk(k, sz, block, blob, fail) ==
    IF sz >= 0
    THEN IF Fails(k, fail) THEN Raised(k, DefinitionRequest(block))
         ELSE LET data == DefinitionResponse(blob, block)
                  part == IF sz < MSG_LEN THEN Slice(data, 0, sz) ELSE data
              IN DefinitionLoop_ExtraChunk(
                     [Sent(k, DefinitionRequest(block)) EXCEPT !.payload = @ \o part],
                     sz - MSG_LEN, block + 1, blob, fail)
    ELSE k

\* the while loop that fetches the definition
RECURSIVE DefinitionLoop(_, _, _, _, _)
DefinitionLoop(k, sz, block, blob, fail) ==
    IF sz > 0
    THEN IF Fails(k, fail) THEN Raised(k, DefinitionRequest(block))
         ELSE LET data == DefinitionResponse(blob, block)
                  part == IF sz < MSG_LEN THEN Slice(data, 0, sz) ELSE data
              IN DefinitionLoop(
                     [Sent(k, DefinitionRequest(block)) EXCEPT !.payload = @ \o part],
                     sz - MSG_LEN, block + 1, blob, fail)
    ELSE k

\* "," in label
HasComma(label) == \E i \in 1..Len(label) : label[i] = ","

\* label.split(",")
RECURSIVE Split(_)
Split(label) ==
    IF ~HasComma(label) THEN <<label>>
    ELSE LET i == CHOOSE j \in 1..Len(label) :
                      label[j] = "," /\ \A h \in 1..(j - 1) : label[h] # ","
         IN <<SubSeq(label, 1, i - 1)>> \o Split(SubSeq(label, i + 1, Len(label)))

\* a list in place of the ordered dict: a coordinate present is added again
AddCoord_Append(rc, p) == Append(rc, p)

\* the ordered dict self.rowcol after rowcol[(row, col)] = True
AddCoord(rc, p) == IF \E i \in 1..Len(rc) : rc[i] = p THEN rc ELSE Append(rc, p)

\* KleSerial().deserialize(keymap).keys: one record per key, in document
\* order, carrying its labels; row and col are not set yet (<<>> is None)
Deserialize(keymap) ==
    [i \in 1..Len(keymap) |-> [labels |-> keymap[i], row |-> <<>>, col |-> <<>>]]

\* the for loop over self.keys, from key i on
RECURSIVE KeysLoop(_, _)
KeysLoop(k, i) ==
    IF i > Len(k.keys) THEN k
    ELSE LET label == k.keys[i].labels[1]
             k1 == [k EXCEPT !.keys[i].row = <<>>, !.keys[i].col = <<>>]
         IN IF Len(label) > 0 /\ HasComma(label)
            THEN LET parts == Split(label) IN
                 IF Len(parts) # 2 \/ ~IsIntText(parts[1]) \/ ~IsIntText(parts[2])
                 THEN [k1 EXCEPT !.outcome = "ValueError"]
                 ELSE LET row == StrToInt(parts[1])
                          col == StrToInt(parts[2])
                      IN KeysLoop([k1 EXCEPT !.keys[i].row = <<row>>,
                                             !.keys[i].col = <<col>>,
                                             !.rowcol = AddCoord(@, <<row, col>>)],
                                  i + 1)
            ELSE KeysLoop(k1, i + 1)

\* lines 79-94: the part of reload_layout both paths share
ParseLayout(k, doc) ==
    LET k1 == [k EXCEPT !.rows = doc.matrix.rows] IN
    IF "cols" \notin DOMAIN doc.matrix THEN [k1 EXCEPT !.outcome = "KeyError"]
    ELSE LET k2 == [k1 EXCEPT !.cols = doc.matrix.cols] IN
         IF "keymap" \notin DOMAIN doc.layouts THEN [k2 EXCEPT !.outcome = "KeyError"]
         ELSE KeysLoop([k2 EXCEPT !.keys = Deserialize(doc.layouts.keymap)], 1)

\* lines 58-77: the live path, against a device whose definition is
\* DevBlob(d, sz) and which declares the size sz
FetchDefinition(k, d, sz, fail) ==
    IF Fails(k, fail) THEN Raised(k, IdentityRequest)
    ELSE LET id == Slice(IdentityResponse, 0, 12)
             k1 == [Sent(k, IdentityRequest) EXCEPT
                        !.vial_protocol = UnpackLE(Slice(id, 0, 4)),
                        !.keyboard_id = UnpackLE(Slice(id, 4, 12))]
         IN IF Len(id) # 12 THEN [Sent(k, IdentityRequest) EXCEPT !.outcome = "struct.error"]
            ELSE IF Fails(k1, fail) THEN Raised(k1, SizeRequest)
            ELSE LET size == Slice(SizeResponse(sz), 0, 4) IN
                 IF Len(size) # 4 THEN [Sent(k1, SizeRequest) EXCEPT !.outcome = "struct.error"]
                 ELSE DefinitionLoop([Sent(k1, SizeRequest) EXCEPT !.payload = <<>>],
                                     UnpackLE(size), 0, DevBlob(d, sz), fail)

\* reload_layout(sideload_json): src is <<"sideload", doc>> or <<"live", d, sz>>
ReloadLayout(k, src, fail) ==
    IF src[1] = "sideload" THEN ParseLayout(k, src[2])
    ELSE LET k1 == FetchDefinition(k, src[2], src[3], fail) IN
         IF k1.outcome # "ok" THEN k1
         ELSE IF ~Decompresses(k1.payload) THEN [k1 EXCEPT !.outcome = "LZMAError"]
         ELSE ParseLayout(k1, LoadDefinition(k1.payload))

\* ------------------------------------------------------------ reload_keymap
\* the nested loops exchanged: the coordinates outside, the layers inside
RECURSIVE KeymapOrder_CoordOuter(_, _, _)
KeymapOrder_CoordOuter(rc, nl, l) ==
    IF Len(rc) = 0 THEN <<>>
    ELSE [i \in 1..nl |-> <<i - 1, rc[1][1], rc[1][2]>>]
             \o KeymapOrder_CoordOuter(Tail(rc), nl, l)

\* the (layer, row, col) of the nested loops, in the order they are visited
RECURSIVE KeymapOrder(_, _, _)
KeymapOrder(rc, nl, l) ==
    IF l >= nl THEN <<>>
    ELSE [i \in 1..Len(rc) |-> <<l, rc[i][1], rc[i][2]>>] \o KeymapOrder(rc, nl, l + 1)

RECURSIVE KeymapLoop(_, _, _, _, _)
KeymapLoop(k, order, i, dv, fail) ==
    IF i > Len(order) THEN k
    ELSE LET l == order[i][1]
             r == order[i][2]
             c == order[i][3]
         IN IF ~(IsByte(l) /\ IsByte(r) /\ IsByte(c))
            THEN [k EXCEPT !.outcome = "struct.error"]
            ELSE IF Fails(k, fail) THEN Raised(k, KeycodeRequest(l, r, c))
            ELSE LET data == KeycodeResponse(dv, l, r, c)
                     keycode == UnpackBE16(Slice(data, 4, 6))
                 IN KeymapLoop(
                        [Sent(k, KeycodeRequest(l, r, c)) EXCEPT
                            !.layout = [t \in DOMAIN @ \cup {<<l, r, c>>} |->
                                           IF t = <<l, r, c>> THEN keycode ELSE @[t]]],
                        order, i + 1, dv, fail)

\* reload_keymap that builds the keymap in a new dict
ReloadKeymap_Rebuild(k, dv, fail) ==
    KeymapLoop([k EXCEPT !.layout = EmptyLayout],
               KeymapOrder(k.rowcol, k.layers, 0), 1, dv, fail)

ReloadKeymap(k, dv, fail) == KeymapLoop(k, KeymapOrder(k.rowcol, k.layers, 0), 1, dv, fail)

\* ------------------------------------------------------------------- reload
\* reload that asks for the layer count before it fetches the definition
Reload_LayersFirst(k, src, n, dv, fail) ==
    LET k0 == [k EXCEPT !.rowcol = <<>>, !.layout = EmptyLayout]
        k1 == ReloadLayers(k0, n, fail)
        k2 == IF k1.outcome = "ok" THEN ReloadLayout(k1, src, fail) ELSE k1
    IN IF k2.outcome = "ok" THEN ReloadKeymap(k2, dv, fail) ELSE k2

\* reload without the two assignments that empty rowcol and layout
Reload_NoReset(k, src, n, dv, fail) ==
    LET k1 == ReloadLayout(k, src, fail)
        k2 == IF k1.outcome = "ok" THEN ReloadLayers(k1, n, fail) ELSE k1
    IN IF k2.outcome = "ok" THEN ReloadKeymap(k2, dv, fail) ELSE k2

Reload(k, src, n, dv, fail) ==
    LET k0 == [k EXCEPT !.rowcol = <<>>, !.layout = EmptyLayout]
        k1 == ReloadLayout(k0, src, fail)
        k2 == IF k1.outcome = "ok" THEN ReloadLayers(k1, n, fail) ELSE k1
    IN IF k2.outcome = "ok" THEN ReloadKeymap(k2, dv, fail) ELSE k2

\* the object after a call that ended as k
Becomes(k) ==
    /\ rowcol' = k.rowcol
    /\ layout' = k.layout
    /\ rows' = k.rows
    /\ cols' = k.cols
    /\ layers' = k.layers
    /\ keys' = k.keys
    /\ vial_protocol' = k.vial_protocol
    /\ keyboard_id' = k.keyboard_id
    /\ reqs' = k.reqs
    /\ outcome' = k.outcome
    /\ payload' = k.payload
    /\ ret' = <<>>

reload(src, n, fail) ==
    /\ Becomes(Reload(Self, src, n, dev, fail))
    /\ call' = [name |-> "reload", src |-> src]
    /\ UNCHANGED dev

reload_layout(src, fail) ==
    /\ Becomes(ReloadLayout(Self, src, fail))
    /\ call' = [name |-> "reload_layout", src |-> src]
    /\ UNCHANGED dev

reload_layers(n, fail) ==
    /\ Becomes(ReloadLayers(Self, n, fail))
    /\ call' = [name |-> "reload_layers"]
    /\ UNCHANGED dev

reload_keymap(fail) ==
    /\ Becomes(ReloadKeymap(Self, dev, fail))
    /\ call' = [name |-> "reload_keymap"]
    /\ UNCHANGED dev

\* ------------------------------------------------------------ specification
\* the device's definition, two frames long: document 1, or a corrupt one (0)
Definition == <<"live", 1, MSG_LEN + 2>>
Corrupt == <<"live", 0, MSG_LEN + 2>>
\* the documents a caller sideloads: the well-formed ones and the others
GoodSideloads == {<<"sideload", Docs[d]>> : d \in 1..3}
BadSideloads == {<<"sideload", Docs[d]>> : d \in 4..Len(Docs)}
\* definitions of every size from 0 on
AnySize == {<<"live", d, sz>> : d \in {0, 1, 2}, sz \in 0..MaxSize}

\* the exchange of a call that fails: none (0) or one the call can reach
KeymapExchanges == MaxLayers * Cardinality(Coords)
LayoutExchanges == 2 + ((MaxSize + MSG_LEN - 1) \div MSG_LEN)

\* the triples callers pass to set_key: a key of the first layer, a key of
\* the last layer, and one no definition names
KeyArgs == {<<0, 0, 0>>, <<MaxLayers - 1, 1, 0>>, <<0, 0, 1>>}

\* A save taken on another keyboard: what save_layout returns on a Keyboard
\* that reloaded document d with n layers from a device holding v everywhere.
Fresh ==
    [rowcol |-> <<>>, layout |-> EmptyLayout, rows |-> 0, cols |-> 0,
     layers |-> 0, keys |-> <<>>, vial_protocol |-> UNSET,
     keyboard_id |-> UNSET, reqs |-> <<>>, outcome |-> "ok", payload |-> <<>>]
ForeignSave(d, n, v) ==
    LET k == Reload(Fresh, <<"sideload", Docs[d]>>, n,
                    [l \in 0..MaxLayers, r \in 0..1, c \in 0..1 |-> v], 0)
    IN JsonDumps(SavedData(k.layout, k.layers, k.rows, k.cols))
ForeignSaves == {ForeignSave(d, MaxLayers + 1, 20) : d \in 1..3}

\* the calls of a session: reload, then set_key, save_layout, restore_layout
Next ==
    \/ \E n \in 1..MaxLayers, fail \in 0..(4 + 1 + KeymapExchanges) :
           reload(Definition, n, fail)
    \/ reload(Corrupt, 1, 0)
    \/ \E src \in GoodSideloads, n \in 1..MaxLayers,
          fail \in 0..(1 + KeymapExchanges) : reload(src, n, fail)
    \/ \E src \in BadSideloads : reload(src, 1, 0)
    \/ \E t \in KeyArgs, code \in Codes, fail \in 0..1 :
           set_key(t[1], t[2], t[3], code, fail)
    \/ save_layout
    \/ \E fail \in 0..KeymapExchanges : Len(ret) = 1 /\ restore_layout(ret[1], fail)
    \/ \E data \in ForeignSaves, fail \in 0..KeymapExchanges : restore_layout(data, fail)

Spec == Init /\ [][Next]_vars

\* the methods of discovery, called one by one or through reload
NextDiscovery ==
    \/ \E n \in 1..MaxLayers, fail \in 0..(4 + 1 + KeymapExchanges) :
           reload(Definition, n, fail)
    \/ reload(Corrupt, 1, 0)
    \/ \E src \in GoodSideloads, n \in 1..MaxLayers,
          fail \in 0..(1 + KeymapExchanges) : reload(src, n, fail)
    \/ \E src \in BadSideloads : reload(src, 1, 0)
    \/ \E src \in {Definition, Corrupt}, fail \in 0..4 : reload_layout(src, fail)
    \/ \E src \in GoodSideloads \cup BadSideloads : reload_layout(src, 0)
    \/ \E n \in 1..MaxLayers, fail \in 0..1 : reload_layers(n, fail)
    \/ \E fail \in 0..KeymapExchanges : reload_keymap(fail)

SpecDiscovery == Init /\ [][NextDiscovery]_vars

\* every operation of the class, the discovery steps called on their own too
AllCodes == Codes \cup {0 - 1}
NextAll ==
    \/ \E n \in 1..MaxLayers, fail \in 0..(4 + 1 + KeymapExchanges) :
           reload(Definition, n, fail)
    \/ \E fail \in 0..4 : reload_layout(Definition, fail)
    \/ \E src \in GoodSideloads : reload_layout(src, 0)
    \/ \E n \in 1..MaxLayers, fail \in 0..1 : reload_layers(n, fail)
    \/ \E fail \in 0..KeymapExchanges : reload_keymap(fail)
    \/ \E t \in KeyArgs, code \in AllCodes, fail \in 0..1 :
           set_key(t[1], t[2], t[3], code, fail)
    \/ save_layout
    \/ \E fail \in 0..KeymapExchanges : Len(ret) = 1 /\ restore_layout(ret[1], fail)
    \/ \E data \in ForeignSaves, fail \in 0..KeymapExchanges : restore_layout(data, fail)

SpecAll == Init /\ [][NextAll]_vars

\* keymap synchronisation against a device of up to MaxLayers + 1 layers
SyncExchanges == (MaxLayers + 1) * Cardinality(Coords)
NextSync ==
    \/ \E src \in GoodSideloads, n \in 1..(MaxLayers + 1),
          fail \in 0..(1 + SyncExchanges) : reload(src, n, fail)
    \/ \E n \in 1..(MaxLayers + 1), fail \in 0..1 : reload_layers(n, fail)
    \/ \E fail \in 0..SyncExchanges : reload_keymap(fail)

SpecSync == Init /\ [][NextSync]_vars

\* two callers of set_key on one key of a reloaded keyboard. In the mode
\* "atomic" a call runs as a whole; in the mode "interleaved" the lines of
\* set_key are steps of their own: the comparison (106), the exchange
\* (107-108) and the assignment (109). call.pc[i] is the line caller i is
\* at and call.code[i] the keycode it was called with.
RaceKey == <<0, 0, 0>>
RaceCodes == {10, 20, 30}
Callers == {1, 2}

InitRace ==
    LET device == [t \in DevTriples |-> IF t[2] = 0 THEN 10 ELSE 20]
        k == Reload(Fresh, Definition, 1, device, 0)
    IN /\ rowcol = k.rowcol
       /\ layout = k.layout
       /\ rows = k.rows
       /\ cols = k.cols
       /\ layers = k.layers
       /\ keys = k.keys
       /\ vial_protocol = k.vial_protocol
       /\ keyboard_id = k.keyboard_id
       /\ dev = device
       /\ \E mode \in {"atomic", "interleaved"} :
              call = [name |-> "set_key", mode |-> mode,
                      pc |-> [i \in Callers |-> "idle"],
                      code |-> [i \in Callers |-> UNSET]]
       /\ outcome = "ok"
       /\ reqs = <<>>
       /\ payload = <<>>
       /\ ret = <<>>

\* line 106: if self.layout[key] != code, for a caller entering set_key
race_check(i, code) ==
    /\ call.mode = "interleaved"
    /\ call.pc[i] = "idle"
    /\ IF layout[RaceKey] # code
       THEN call' = [call EXCEPT !.pc[i] = "write", !.code[i] = code]
       ELSE call' = [call EXCEPT !.code[i] = UNSET]
    /\ UNCHANGED <<kbd, dev, outcome, reqs, payload, ret>>

\* lines 107-108: the set-keycode exchange; the device applies the write
race_write(i) ==
    /\ call.mode = "interleaved"
    /\ call.pc[i] = "write"
    /\ SetKeycodePacks(RaceKey[1], RaceKey[2], RaceKey[3], call.code[i])
    /\ dev' = [dev EXCEPT ![RaceKey] =
                  UnpackBE16(Slice(SetKeycodeRequest(RaceKey[1], RaceKey[2], RaceKey[3],
                                                     call.code[i]), 4, 6))]
    /\ call' = [call EXCEPT !.pc[i] = "commit"]
    /\ UNCHANGED <<kbd, outcome, reqs, payload, ret>>

\* line 109: self.layout[key] = code, and the call returns
race_commit(i) ==
    /\ call.mode = "interleaved"
    /\ call.pc[i] = "commit"
    /\ layout' = [layout EXCEPT ![RaceKey] = call.code[i]]
    /\ call' = [call EXCEPT !.pc[i] = "idle", !.code[i] = UNSET]
    /\ UNCHANGED <<rowcol, rows, cols, layers, keys, vial_protocol, keyboard_id,
                   dev, outcome, reqs, payload, ret>>

\* set_key under mutual exclusion: lines 106-109 as one step
race_atomic(i, code) ==
    LET r == SetKeyStep(layout, dev, <<>>, RaceKey[1], RaceKey[2], RaceKey[3], code, 0) IN
    /\ call.mode = "atomic"
    /\ layout' = r.layout
    /\ dev' = r.dev
    /\ call' = [call EXCEPT !.code[i] = code]
    /\ UNCHANGED <<rowcol, rows, cols, layers, keys, vial_protocol, keyboard_id,
                   outcome, reqs, payload, ret>>

NextRace ==
    \/ \E i \in Callers, code \in RaceCodes : race_check(i, code)
    \/ \E i \in Callers : race_write(i)
    \/ \E i \in Callers : race_commit(i)
    \/ \E i \in Callers, code \in RaceCodes : race_atomic(i, code)

SpecRace == InitRace /\ [][NextRace]_vars

\* the live path alone, against definitions of every size
NextFetch == \E src \in AnySize, fail \in 0..LayoutExchanges : reload_layout(src, fail)

SpecFetch == Init /\ [][NextFetch]_vars

\* ================================================================== claims
Key(c) == <<c.layer, c.row, c.col>>

\* every index triple of the geometry has an entry in the Keymap
FullyPopulated ==
    \A l \in 0..(layers - 1), r \in 0..(rows - 1), c \in 0..(cols - 1) :
        <<l, r, c>> \in DOMAIN layout

IsSetKeycode(req) == req[1] = CMD_VIA_SET_KEYCODE
NoSetKeycode(rq) == \A i \in 1..Len(rq) : ~IsSetKeycode(rq[i])

\* C1: restore_layout on the bytes save_layout has just returned, with a
\* fully-populated Keymap, leaves every Keymap entry unchanged and issues no
\* set-keycode request.
C1_RoundTrip ==
    [][(/\ Len(ret) = 1
        /\ FullyPopulated
        /\ call'.name = "restore_layout"
        /\ call'.data = ret[1])
       => (layout' = layout /\ NoSetKeycode(reqs'))]_vars

\* a restore of the keyboard's own save, two keys populated, has happened
C1_Witness ==
    /\ call.name = "restore_layout"
    /\ call.data = SaveLayoutResult
    /\ FullyPopulated
    /\ layers >= 1 /\ rows = 2 /\ cols = 1
    /\ outcome = "ok"

Ceil(a, b) == (a + b - 1) \div b
FetchRequests(sz) ==
    <<IdentityRequest, SizeRequest>>
        \o [b \in 1..Ceil(sz, MSG_LEN) |-> DefinitionRequest(b - 1)]

C4_ForeignRestoreCompletes ==
    call.name = "restore_layout" => outcome \in {"ok", "TransportError"}

\* the index triples of a saved layout
SavedTriples(arr) ==
    {<<l, r, c>> \in (0..(Len(arr) - 1)) \X (0..1) \X (0..1) :
        /\ r < Len(arr[l + 1])
        /\ c < Len(arr[l + 1][r + 1])}
OutsideGeometry(t) == t[1] >= layers \/ t[2] >= rows \/ t[3] >= cols

\* C5: restore_layout of a save with an index triple outside the current
\* geometry does not raise a lookup failure and leaves the Keymap as it was
\* for that triple.
C5_OutsideGeometryUntouched ==
    [][call'.name = "restore_layout"
       => /\ outcome' # "KeyError"
          /\ \A t \in SavedTriples(JsonLoads(call'.data).layout) :
                OutsideGeometry(t)
                => /\ (t \in DOMAIN layout) = (t \in DOMAIN layout')
                   /\ t \in DOMAIN layout => layout'[t] = layout[t]]_vars

\* C6: a reload or reload_layout that fails leaves CoordinateSet, rows, cols
\* and the key collection as they were before the call.
C6_FailedDiscoveryCommitsNothing ==
    [][(call'.name \in {"reload", "reload_layout"} /\ outcome' # "ok")
       => UNCHANGED <<rowcol, rows, cols, keys>>]_vars

\* C7: set_key for a triple that is no key of the Keymap ends in a lookup
\* failure, issues no request and leaves the Keymap unchanged.
C7_UnknownCoordinate ==
    [][(call'.name = "set_key" /\ Key(call') \notin DOMAIN layout)
       => (outcome' = "KeyError" /\ reqs' = <<>> /\ layout' = layout)]_vars

\* set_key was called for an unknown triple on a populated Keymap
C7_Witness ==
    /\ call.name = "set_key"
    /\ Key(call) \notin DOMAIN layout
    /\ DOMAIN layout # {}
    /\ outcome = "KeyError"

\* C8: when the cached value differs from the requested keycode, set_key
\* issues exactly one set-keycode request for the triple and the keycode;
\* the cached value is the keycode when the exchange succeeds and the old
\* value when it fails.
C8_CommitAfterWrite ==
    [][(/\ call'.name = "set_key"
        /\ Key(call') \in DOMAIN layout
        /\ call'.code \in 0..65535
        /\ layout[Key(call')] # call'.code)
       => /\ reqs' = <<SetKeycodeRequest(call'.layer, call'.row, call'.col, call'.code)>>
          /\ outcome' \in {"ok", "TransportError"}
          /\ outcome' = "ok" => layout'[Key(call')] = call'.code
          /\ outcome' = "TransportError" => layout'[Key(call')] = layout[Key(call')]
          /\ DOMAIN layout' = DOMAIN layout]_vars

\* a write failed in the transport and the cache kept the old keycode
C8_Witness ==
    /\ call.name = "set_key"
    /\ outcome = "TransportError"
    /\ Len(reqs) = 1
    /\ call.old # call.code
    /\ layout[Key(call)] = call.old

IsDiscoveryRequest(req) == req[1] = CMD_VIA_VIAL_PREFIX

\* C9: a reload or reload_layout given a sideload document issues no
\* identity, size or definition request, and after it the identity is
\* (-1, -1).
C9_SideloadIdentityUnset ==
    (call.name \in {"reload", "reload_layout"} /\ call.src[1] = "sideload")
    => /\ \A i \in 1..Len(reqs) : ~IsDiscoveryRequest(reqs[i])
       /\ vial_protocol = UNSET
       /\ keyboard_id = UNSET

\* C10: save_layout returns a document of version 0 whose layout has the
\* dimensions [layers][rows][cols] and holds the cached keycode of every
\* triple of the Keymap and -1 elsewhere; it issues no request and changes
\* no state.
C10_SaveLayout ==
    [][call'.name = "save_layout"
       => /\ UNCHANGED <<kbd, dev>>
          /\ reqs' = <<>>
          /\ Len(ret') = 1
          /\ LET data == JsonLoads(ret'[1]) IN
             /\ data.version = 0
             /\ Len(data.layout) = layers
             /\ \A l \in 1..layers :
                   /\ Len(data.layout[l]) = rows
                   /\ \A r \in 1..rows :
                         /\ Len(data.layout[l][r]) = cols
                         /\ \A c \in 1..cols :
                               data.layout[l][r][c] =
                                   IF <<l - 1, r - 1, c - 1>> \in DOMAIN layout
                                   THEN layout[<<l - 1, r - 1, c - 1>>]
                                   ELSE 0 - 1]_vars

\* a save of two rows, one with a keycode and one unset, was returned
C10_Witness ==
    /\ call.name = "save_layout"
    /\ layers >= 1 /\ rows = 2 /\ cols = 1
    /\ Len(ret) = 1
    /\ JsonLoads(ret[1]).layout[1][1][1] \in Keycodes
    /\ JsonLoads(ret[1]).layout[1][2][1] = 0 - 1

\* the get-keycode requests of a full reload_keymap over rc and nl layers:
\* request number l * Len(rc) + i asks for layer l and the i-th coordinate
ExpectedKeycodeRequest(rc, j) ==
    <<CMD_VIA_GET_KEYCODE, (j - 1) \div Len(rc),
      rc[((j - 1) % Len(rc)) + 1][1], rc[((j - 1) % Len(rc)) + 1][2]>>

\* C11: reload_keymap issues one get-keycode request per (layer, row, col),
\* the layers outermost in increasing order and the coordinates in the
\* insertion order of CoordinateSet, layers x |CoordinateSet| in all, and
\* stores each decoded keycode under its triple; two runs over the same
\* CoordinateSet and layer count issue the same requests.
C11_KeymapRequestOrder ==
    [][call'.name = "reload_keymap"
       => /\ \A j \in 1..Len(reqs') : reqs'[j] = ExpectedKeycodeRequest(rowcol, j)
          /\ Len(reqs') <= layers * Len(rowcol)
          /\ outcome' = "ok"
             => /\ Len(reqs') = layers * Len(rowcol)
                /\ \A l \in 0..(layers - 1), i \in 1..Len(rowcol) :
                      /\ <<l, rowcol[i][1], rowcol[i][2]>> \in DOMAIN layout'
                      /\ layout'[<<l, rowcol[i][1], rowcol[i][2]>>]
                           = dev[<<l, rowcol[i][1], rowcol[i][2]>>]
          /\ (call.name = "reload_keymap" /\ outcome = "ok" /\ outcome' = "ok")
             => reqs' = reqs]_vars

\* a keymap of two layers and two coordinates, (1,0) before (0,0), was read
C11_Witness ==
    /\ call.name = "reload_keymap"
    /\ outcome = "ok"
    /\ layers = 2
    /\ rowcol = << <<1, 0>>, <<0, 0>> >>
    /\ Len(reqs) = 4
    /\ reqs[2] = <<CMD_VIA_GET_KEYCODE, 0, 0, 0>>
    /\ reqs[3] = <<CMD_VIA_GET_KEYCODE, 1, 1, 0>>

\* the document a discovery source delivers
SourceDoc(src) == IF src[1] = "sideload" THEN src[2] ELSE Docs[src[2]]

\* the (row, col) the primary labels of a document's keys name
LabelCoord(label) == <<StrToInt(Split(label)[1]), StrToInt(Split(label)[2])>>
DocCoords(doc) ==
    {LabelCoord(doc.layouts.keymap[i][1]) :
        i \in {h \in 1..Len(doc.layouts.keymap) :
                  Len(doc.layouts.keymap[h][1]) > 0 /\ HasComma(doc.layouts.keymap[h][1])}}

Range(seq) == {seq[i] : i \in 1..Len(seq)}
NoDuplicates(seq) == \A i, j \in 1..Len(seq) : seq[i] = seq[j] => i = j

\* C12: after a successful reload CoordinateSet holds exactly the
\* coordinates of the newly discovered document and the keys of the Keymap
\* are exactly [0, layers) x CoordinateSet, whatever the object held before.
C12_ReloadFromScratch ==
    (call.name = "reload" /\ outcome = "ok")
    => /\ Range(rowcol) = DocCoords(SourceDoc(call.src))
       /\ NoDuplicates(rowcol)
       /\ DOMAIN layout =
             {<<l, rc[1], rc[2]>> : l \in 0..(layers - 1), rc \in Range(rowcol)}

\* a sideloaded reload of the one-key document on an object that had
\* discovered the live two-key keyboard before
C12_Witness ==
    /\ call.name = "reload"
    /\ outcome = "ok"
    /\ call.src[1] = "sideload"
    /\ vial_protocol # UNSET
    /\ rowcol = << <<0, 0>> >>
    /\ DOMAIN layout = {<<0, 0, 0>>}

\* C13: set_key, save_layout and restore_layout, whether they succeed or
\* fail, leave CoordinateSet, rows, cols and the layer count unchanged.
C13_LayoutFrozen ==
    [][call'.name \in {"set_key", "save_layout", "restore_layout"}
       => UNCHANGED <<rowcol, rows, cols, layers>>]_vars

\* a restore of a save with more layers than the keyboard has failed
\* part-way
C13_Witness ==
    /\ call.name = "restore_layout"
    /\ outcome # "ok"
    /\ Len(JsonLoads(call.data).layout) > layers
    /\ Len(rowcol) = 2
    /\ Len(reqs) >= 1

\* C14: set_key, save_layout, restore_layout and reload_keymap remove no
\* key from the Keymap; set_key, save_layout and restore_layout add none.
C14_KeymapNeverShrinks ==
    [][/\ call'.name \in {"set_key", "save_layout", "restore_layout", "reload_keymap"}
          => DOMAIN layout \subseteq DOMAIN layout'
       /\ call'.name \in {"set_key", "save_layout", "restore_layout"}
          => DOMAIN layout' = DOMAIN layout]_vars

\* a reload_keymap whose first exchange failed on a keymap of two keys
C14_Witness ==
    /\ call.name = "reload_keymap"
    /\ outcome = "TransportError"
    /\ Len(reqs) = 1
    /\ DOMAIN layout = {<<0, 0, 0>>, <<0, 1, 0>>}

\* the call that ended in the primed state was made with the fail-th
\* exchange raising
CalledWithFailure(fail) ==
    \/ call'.name = "reload" /\ \E n \in 1..MaxLayers : reload(call'.src, n, fail)
    \/ call'.name = "reload_layout" /\ reload_layout(call'.src, fail)
    \/ call'.name = "reload_layers" /\ \E n \in 1..MaxLayers : reload_layers(n, fail)
    \/ call'.name = "reload_keymap" /\ reload_keymap(fail)
    \/ call'.name = "set_key"
         /\ set_key(call'.layer, call'.row, call'.col, call'.code, fail)
    \/ call'.name = "restore_layout" /\ restore_layout(call'.data, fail)

FailPoints == 1..(4 + 1 + KeymapExchanges)

\* C15: no operation retries: when the fail-th exchange of a call raises, the
\* call ends with the transport error, the failed request is the last one
\* issued and was issued once, and a call never issues more than fail requests.
C15_NoRetry ==
    [][\A fail \in FailPoints :
          CalledWithFailure(fail)
          => /\ Len(reqs') <= fail
             /\ Len(reqs') = fail <=> outcome' = "TransportError"
             /\ \A j \in 1..(Len(reqs') - 1) : reqs'[j] # reqs'[Len(reqs')]]_vars

\* a live reload whose layer-count exchange, the fifth of the call, raised
C15_Witness ==
    /\ call.name = "reload"
    /\ outcome = "TransportError"
    /\ Len(reqs) = 5
    /\ reqs[5] = LayerCountRequest
    /\ layers = 0

\* the requests of a complete live reload of a definition of sz bytes that
\* yields the coordinates rc and nl layers
LiveReloadRequests(sz, rc, nl) ==
    FetchRequests(sz) \o <<LayerCountRequest>>
        \o [j \in 1..(nl * Len(rc)) |-> ExpectedKeycodeRequest(rc, j)]

\* C16: a live reload issues the identity request, the size request, the
\* definition chunks 0..n-1, the layer-count request and then the get-keycode
\* requests, in this order and each after the response to the one before; a
\* reload that fails issued a prefix of that sequence. save_layout and
\* restore_layout issue no request but set-keycode writes.
C16_PhaseOrder ==
    /\ (call.name = "reload" /\ call.src[1] = "live")
       => LET expected == LiveReloadRequests(call.src[3], rowcol, layers) IN
          /\ Len(reqs) <= Len(expected)
          /\ \A j \in 1..Len(reqs) : reqs[j] = expected[j]
          /\ outcome = "ok" => reqs = expected
    /\ call.name \in {"save_layout", "restore_layout"}
       => \A i \in 1..Len(reqs) : IsSetKeycode(reqs[i])

\* a live reload went through all five phases
C16_Witness ==
    /\ call.name = "reload"
    /\ call.src[1] = "live"
    /\ outcome = "ok"
    /\ Len(reqs) = 4 + 1 + 2
    /\ reqs[5] = LayerCountRequest
    /\ reqs[6][1] = CMD_VIA_GET_KEYCODE

\* the primary label of record i names a coordinate
Qualifies(doc, i) ==
    Len(doc.layouts.keymap[i][1]) > 0 /\ HasComma(doc.layouts.keymap[i][1])
\* the first record of the document whose primary label names p
FirstRecord(doc, p) ==
    CHOOSE i \in 1..Len(doc.layouts.keymap) :
        /\ Qualifies(doc, i) /\ LabelCoord(doc.layouts.keymap[i][1]) = p
        /\ \A h \in 1..(i - 1) :
              ~(Qualifies(doc, h) /\ LabelCoord(doc.layouts.keymap[h][1]) = p)
\* seq lists the coordinates of the set S once each, in the order of their
\* first records in the document
ListsInDocOrder(seq, S, doc) ==
    /\ Range(seq) = S
    /\ NoDuplicates(seq)
    /\ \A a, b \in 1..Len(seq) :
          a < b => FirstRecord(doc, seq[a]) < FirstRecord(doc, seq[b])
\* every record of the document is in the key collection, with the row and
\* col of its primary label, or None (<<>>) for both when it names none
KeysOfDoc(ks, doc) ==
    /\ Len(ks) = Len(doc.layouts.keymap)
    /\ \A i \in 1..Len(ks) :
          /\ ks[i].labels = doc.layouts.keymap[i]
          /\ IF Qualifies(doc, i)
             THEN /\ ks[i].row = <<LabelCoord(doc.layouts.keymap[i][1])[1]>>
                  /\ ks[i].col = <<LabelCoord(doc.layouts.keymap[i][1])[2]>>
             ELSE ks[i].row = <<>> /\ ks[i].col = <<>>

C18_AtomicSetKeyCoherent ==
    call.mode = "atomic" => layout[RaceKey] = dev[RaceKey]

\* both interleaved calls, with different keycodes, have returned and the
\* cache holds another keycode than the device: a lost update
C18_Witness ==
    /\ call.mode = "interleaved"
    /\ \A i \in Callers : call.pc[i] = "idle"
    /\ layout[RaceKey] # dev[RaceKey]

\* C19: every keycode in the Keymap is in 0..65535, whatever reload,
\* reload_keymap, set_key and restore_layout were given; a set_key of a
\* present key with a keycode that does not fit 16 bits raises before any
\* exchange and leaves the cached keycode as it was.
C19_KeycodeRange ==
    /\ \A t \in DOMAIN layout : layout[t] \in 0..65535
    /\ (call.name = "set_key" /\ Key(call) \in DOMAIN layout /\ call.code \notin 0..65535)
       => /\ outcome = "struct.error"
          /\ reqs = <<>>
          /\ layout[Key(call)] = call.old

\* set_key(0, 0, 0, -1) and set_key(0, 0, 0, 65536) on a present key
C19_Witness ==
    /\ call.name = "set_key"
    /\ Key(call) \in DOMAIN layout
    /\ call.code \in {0 - 1, 65536}
    /\ outcome = "struct.error"
    /\ layout[Key(call)] = 20

\* C20: with one caller and a device that a failed exchange leaves as it
\* was, the cached keycode of every key of the Keymap is the keycode the
\* device holds for it, after reload and after every set_key and
\* restore_layout that follows, those that fail part-way included.
C20_CacheCoherent ==
    \A t \in DOMAIN layout : layout[t] = dev[t]

\* a restore that wrote one key and then failed, after a reload that had
\* read 10 for that key
C20_Witness ==
    /\ call.name = "restore_layout"
    /\ outcome # "ok"
    /\ Len(reqs) >= 1
    /\ IsSetKeycode(reqs[1])
    /\ DOMAIN layout = {<<0, 0, 0>>, <<0, 1, 0>>}
    /\ dev[<<0, 0, 0>>] = 20
    /\ layout[<<0, 0, 0>>] = 20

====
